---- MODULE Spec2Model ----
(***************************************************************************)
(* The scrub pipeline of 3xBot (src/unnamed/part_001, lines 1-1043): the   *)
(* canonicalizer, the trust gate, the dedup/enqueue gate, the sequential   *)
(* worker, the flag store and the digest.  Every await of the source is a  *)
(* suspension point: an action runs one handler from one await to the      *)
(* next.  Strings are sequences of one-character strings; times are in     *)
(* abstract milliseconds.                                                  *)
(***************************************************************************)
EXTENDS Integers, Sequences, FiniteSets, TLC

\* ---------------------------------------------------------------- bounds
MaxTime == 4
MaxRuns == 2
MaxRateLimits == 3
MaxLines == 3
MaxBudget == 5
MaxQueue == 2
MaxRestarts == 1

\* ------------------------------------------------- configuration (ENV)
GS_THRESHOLD == 2500
DIGEST_INTERVAL_MS == 2
SCRUB_DELAY_MS == 1
XBL_BACKOFF_BASE_MS == 1
XBL_BACKOFF_MAX_MS == 3
XBL_MAX_RETRIES == 5
REQUEUE_SLEEP_CAP_MS == 1
CHUNK_MAX_CHARS == 3500

\* null / undefined of the source, for numbers
Null == -1

\* ------------------------------------------------------------ inputs
\* raw handles the feed reader may offer and staff may trust
RawHandles == { <<"A">>, <<" ", "a", " ">>, <<"B">>, <<" ", " ">> }
\* display gamertags the resolver may return
Gamertags == { <<"A">>, <<"B">> }
\* gamerscores the resolver may return
Gamerscores == { Null, 2499, 2500 }
\* retry-after values a rate-limit signal may carry
RetryAfters == { Null, 0, 4 }

Min(a, b) == IF a < b THEN a ELSE b

\* ------------------------------------------------------ canonicalizer
IsSpace(c) == c = " "

RECURSIVE CollapseWs(_)
CollapseWs(s) ==
  IF s = <<>> THEN <<>>
  ELSE IF IsSpace(Head(s))
       THEN IF Len(s) > 1 /\ IsSpace(s[2])
            THEN CollapseWs(Tail(s))
            ELSE <<" ">> \o CollapseWs(Tail(s))
       ELSE <<Head(s)>> \o CollapseWs(Tail(s))

RECURSIVE TrimLeft(_)
TrimLeft(s) ==
  IF s # <<>> /\ IsSpace(Head(s)) THEN TrimLeft(Tail(s)) ELSE s

RECURSIVE TrimRight(_)
TrimRight(s) ==
  IF s # <<>> /\ IsSpace(s[Len(s)]) THEN TrimRight(SubSeq(s, 1, Len(s) - 1)) ELSE s

Trim(s) == TrimRight(TrimLeft(s))

LowerChar(c) == IF c = "A" THEN "a" ELSE IF c = "B" THEN "b" ELSE c

ToLowerCase(s) == [i \in 1..Len(s) |-> LowerChar(s[i])]

normalizeGamertag(s) == Trim(CollapseWs(s))

gtKey(s) == ToLowerCase(normalizeGamertag(s))

\* ------------------------------------------------------------- state
VARIABLES
  now,                    \* Date.now()
  checked,                \* state.checked
  pending,                \* state.pending
  flaggedAll,             \* state.flaggedAll
  trusted,                \* state.trusted
  lastDigestMs,           \* state.lastDigestMs
  queue,                  \* queue
  queuedKeys,             \* queuedKeys
  working,                \* working
  globalCooldownUntilMs,  \* globalCooldownUntilMs
  wpc,                    \* the await the worker loop is suspended at
  item,                   \* the item the worker loop holds (<<>> or <<item>>)
  wakeAt,                 \* when the worker's pending sleep() resolves
  digests,                \* the digest runs suspended at an await
  runSeq,                 \* number of due digest runs started
  rlCount,                \* history: rate-limit signals the worker got per key
  classified,             \* history: scores handed to the classifier per key
  handed,                 \* history: per key, the last run whose page with its line the sink took
  consecutiveRl,          \* history: rate-limit signals the worker got in a row
  stored,                 \* the document in STATE_FILE
  lostAtCrash,            \* history: per crash, the keys queued or in flight and not checked
  callIn,                 \* the arguments (and the frame) of a call under test
  callOut                 \* <<>> before the call returns, << its result >> after

vars == << now, checked, pending, flaggedAll, trusted, lastDigestMs, queue,
           queuedKeys, working, globalCooldownUntilMs, wpc, item, wakeAt,
           digests, runSeq, rlCount, classified, handed, consecutiveRl,
           stored, lostAtCrash, callIn, callOut >>

\* the variables of the calls of pure functions
callVars == << callIn, callOut >>

Keys == { gtKey(h) : h \in RawHandles \cup Gamertags } \ { <<>> }

EmptyMap == [x \in {} |-> 0]

MapDelete(m, k) == [x \in DOMAIN m \ {k} |-> m[x]]

MapSet(m, k, v) == [x \in DOMAIN m \cup {k} |-> IF x = k THEN v ELSE m[x]]

isTrustedKey(k) == k \in DOMAIN trusted

QueueKeys(q) == { q[i].k : i \in 1..Len(q) }

NoItem == <<>>

KeyCount(f) == IF DOMAIN f = {} THEN 0 ELSE
  LET RECURSIVE Sum(_)
      Sum(S) == IF S = {} THEN 0
                ELSE LET x == CHOOSE y \in S : TRUE IN f[x] + Sum(S \ {x})
  IN Sum(DOMAIN f)

\* the document saveState writes (lines 159-173) for an in-memory state
Doc(ch, pe, fa, tr, ld) ==
  [checked |-> ch, pending |-> pe, flaggedAll |-> fa, trusted |-> tr,
   lastDigestMs |-> ld]

Init ==
  /\ now = 1
  /\ checked = {}
  /\ pending = EmptyMap
  /\ flaggedAll = EmptyMap
  /\ trusted = EmptyMap
  /\ lastDigestMs = 0
  /\ queue = <<>>
  /\ queuedKeys = {}
  /\ working = FALSE
  /\ globalCooldownUntilMs = 0
  /\ wpc = "idle"
  /\ item = NoItem
  /\ wakeAt = 0
  /\ digests = {}
  /\ runSeq = 0
  /\ rlCount = [k \in Keys |-> 0]
  /\ classified = [k \in Keys |-> 0]
  /\ handed = EmptyMap
  /\ consecutiveRl = 0
  /\ lostAtCrash = <<>>
  /\ stored = Doc({}, EmptyMap, EmptyMap, EmptyMap, 0)
  /\ callIn = <<>>
  /\ callOut = <<>>


\* ------------------------------------ faulty variants of the gate and loop
\* enqueueGamertag without the test of line 737
enqueueGamertagNoCheckedTest(q, qk, gt) ==
  LET clean == normalizeGamertag(gt)
      k == gtKey(clean)
  IN IF k = <<>> \/ isTrustedKey(k) \/ k \in qk
     THEN [queue |-> q, queuedKeys |-> qk, admitted |-> FALSE]
     ELSE [queue |-> Append(q, [gt |-> clean, k |-> k]),
           queuedKeys |-> qk \cup {k}, admitted |-> TRUE]

\* processQueue without the test of line 757
RECURSIVE processQueueLoopNoTrustSkip(_, _)
processQueueLoopNoTrustSkip(q, qk) ==
  IF Len(q) = 0
  THEN [queue |-> q, queuedKeys |-> qk, item |-> NoItem, wpc |-> "idle",
        wakeAt |-> 0]
  ELSE LET it == Head(q)
           qk2 == qk \ {it.k}
       IN IF it.k \in checked
          THEN processQueueLoopNoTrustSkip(Tail(q), qk2)
          ELSE IF globalCooldownUntilMs > now
          THEN [queue |-> Tail(q), queuedKeys |-> qk2, item |-> <<it>>,
                wpc |-> "cooldown", wakeAt |-> globalCooldownUntilMs]
          ELSE [queue |-> Tail(q), queuedKeys |-> qk2, item |-> <<it>>,
                wpc |-> "fetch", wakeAt |-> 0]

\* processQueue without the test of line 758
RECURSIVE processQueueLoopNoCheckedSkip(_, _)
processQueueLoopNoCheckedSkip(q, qk) ==
  IF Len(q) = 0
  THEN [queue |-> q, queuedKeys |-> qk, item |-> NoItem, wpc |-> "idle",
        wakeAt |-> 0]
  ELSE LET it == Head(q)
           qk2 == qk \ {it.k}
       IN IF isTrustedKey(it.k)
          THEN processQueueLoopNoCheckedSkip(Tail(q), qk2)
          ELSE IF globalCooldownUntilMs > now
          THEN [queue |-> Tail(q), queuedKeys |-> qk2, item |-> <<it>>,
                wpc |-> "cooldown", wakeAt |-> globalCooldownUntilMs]
          ELSE [queue |-> Tail(q), queuedKeys |-> qk2, item |-> <<it>>,
                wpc |-> "fetch", wakeAt |-> 0]

\* processQueue without the cooldown test of lines 761-766
RECURSIVE processQueueLoopNoCooldown(_, _)
processQueueLoopNoCooldown(q, qk) ==
  IF Len(q) = 0
  THEN [queue |-> q, queuedKeys |-> qk, item |-> NoItem, wpc |-> "idle",
        wakeAt |-> 0]
  ELSE LET it == Head(q)
           qk2 == qk \ {it.k}
       IN IF isTrustedKey(it.k)
          THEN processQueueLoopNoCooldown(Tail(q), qk2)
          ELSE IF it.k \in checked
          THEN processQueueLoopNoCooldown(Tail(q), qk2)
          ELSE [queue |-> Tail(q), queuedKeys |-> qk2, item |-> <<it>>,
                wpc |-> "fetch", wakeAt |-> 0]

\* enqueueGamertag without the test of line 734 for an empty key
enqueueGamertagNoEmptyTest(q, qk, gt) ==
  LET clean == normalizeGamertag(gt)
      k == gtKey(clean)
  IN IF isTrustedKey(k) THEN [queue |-> q, queuedKeys |-> qk, admitted |-> FALSE]
     ELSE IF k \in checked THEN [queue |-> q, queuedKeys |-> qk, admitted |-> FALSE]
     ELSE IF k \in qk THEN [queue |-> q, queuedKeys |-> qk, admitted |-> FALSE]
     ELSE [queue |-> Append(q, [gt |-> clean, k |-> k]),
           queuedKeys |-> qk \cup {k}, admitted |-> TRUE]

\* ------------------------------------------------ dedup & enqueue gate
\* enqueueGamertag, lines 732-743: the queue and its index after the call
enqueueGamertag(q, qk, gt) ==
  LET clean == normalizeGamertag(gt)
      k == gtKey(clean)
  IN IF k = <<>> THEN [queue |-> q, queuedKeys |-> qk, admitted |-> FALSE]
     ELSE IF isTrustedKey(k) THEN [queue |-> q, queuedKeys |-> qk, admitted |-> FALSE]
     ELSE IF k \in checked THEN [queue |-> q, queuedKeys |-> qk, admitted |-> FALSE]
     ELSE IF k \in qk THEN [queue |-> q, queuedKeys |-> qk, admitted |-> FALSE]
     ELSE [queue |-> Append(q, [gt |-> clean, k |-> k]),
           queuedKeys |-> qk \cup {k}, admitted |-> TRUE]

\* processQueue, lines 752-766: the while loop from its head to its first
\* await (or to its end): the items it shifts and skips, and where it stops
RECURSIVE processQueueLoop(_, _)
processQueueLoop(q, qk) ==
  IF Len(q) = 0
  THEN [queue |-> q, queuedKeys |-> qk, item |-> NoItem, wpc |-> "idle",
        wakeAt |-> 0]
  ELSE LET it == Head(q)
           qk2 == qk \ {it.k}
       IN IF isTrustedKey(it.k)
          THEN processQueueLoop(Tail(q), qk2)
          ELSE IF it.k \in checked
          THEN processQueueLoop(Tail(q), qk2)
          ELSE IF globalCooldownUntilMs > now
          THEN [queue |-> Tail(q), queuedKeys |-> qk2, item |-> <<it>>,
                wpc |-> "cooldown", wakeAt |-> globalCooldownUntilMs]
          ELSE [queue |-> Tail(q), queuedKeys |-> qk2, item |-> <<it>>,
                wpc |-> "fetch", wakeAt |-> 0]

\* the offer without the processQueue call of line 744
OfferWithoutProcessQueue(h) ==
  LET e == enqueueGamertag(queue, queuedKeys, h)
  IN /\ queue' = e.queue
     /\ queuedKeys' = e.queuedKeys
     /\ UNCHANGED << item, wpc, wakeAt, working >>
     /\ UNCHANGED << now, checked, pending, flaggedAll, trusted, lastDigestMs,
                     globalCooldownUntilMs, digests, runSeq, rlCount,
                     classified, handed >>
  /\ UNCHANGED callVars
  /\ UNCHANGED consecutiveRl
  /\ UNCHANGED stored
  /\ UNCHANGED lostAtCrash

\* the offer with a processQueue that lacks the test of line 748
OfferStartsLoopAlways(h) ==
  LET e == enqueueGamertag(queue, queuedKeys, h)
  IN /\ IF e.admitted
        THEN LET d == processQueueLoop(e.queue, e.queuedKeys)
             IN /\ queue' = d.queue
                /\ queuedKeys' = d.queuedKeys
                /\ item' = d.item
                /\ wpc' = d.wpc
                /\ wakeAt' = d.wakeAt
                /\ working' = (d.wpc # "idle")
        ELSE /\ queue' = e.queue
             /\ queuedKeys' = e.queuedKeys
             /\ UNCHANGED << item, wpc, wakeAt, working >>
     /\ UNCHANGED << now, checked, pending, flaggedAll, trusted, lastDigestMs,
                     globalCooldownUntilMs, digests, runSeq, rlCount,
                     classified, handed >>
     /\ UNCHANGED callVars
  /\ UNCHANGED consecutiveRl
  /\ UNCHANGED stored
  /\ UNCHANGED lostAtCrash

\* the feed reader (pollOnlineList, line 720) offers a raw handle;
\* enqueueGamertag calls processQueue, which runs to its first await if no
\* loop is active
Offer(h) ==
  LET e == enqueueGamertag(queue, queuedKeys, h)
  IN /\ IF e.admitted /\ ~working
        THEN LET d == processQueueLoop(e.queue, e.queuedKeys)
             IN /\ queue' = d.queue
                /\ queuedKeys' = d.queuedKeys
                /\ item' = d.item
                /\ wpc' = d.wpc
                /\ wakeAt' = d.wakeAt
                /\ working' = (d.wpc # "idle")
        ELSE /\ queue' = e.queue
             /\ queuedKeys' = e.queuedKeys
             /\ UNCHANGED << item, wpc, wakeAt, working >>
     /\ UNCHANGED << now, checked, pending, flaggedAll, trusted, lastDigestMs,
                     globalCooldownUntilMs, digests, runSeq, rlCount,
                     classified, handed >>
  /\ UNCHANGED callVars
  /\ UNCHANGED consecutiveRl
  /\ UNCHANGED stored
  /\ UNCHANGED lostAtCrash

\* ------------------------------------------------------- flag store
\* addFlagged, lines 553-589: the two maps after the call.  Of the time
\* stamps the source writes, the model keeps the one it reads back
\* (pending lastSeenMs, line 663); firstSeenMs, the lastSeenMs of flaggedAll
\* and the addedMs of trusted are written and never read
addFlagged(profile) ==
  LET k == gtKey(profile.gamertag)
      t == now
  IN IF k = <<>> THEN [pending |-> pending, flaggedAll |-> flaggedAll]
     ELSE IF isTrustedKey(k) THEN [pending |-> pending, flaggedAll |-> flaggedAll]
     ELSE
       [pending |->
          IF k \notin DOMAIN pending
          THEN MapSet(pending, k,
                 [gamertag |-> profile.gamertag,
                  gamerscore |-> IF profile.gamerscore = Null THEN 0 ELSE profile.gamerscore, lastSeenMs |-> t])
          ELSE MapSet(pending, k,
                 [gamertag |-> profile.gamertag,
                  gamerscore |-> IF profile.gamerscore # Null THEN profile.gamerscore
                                 ELSE pending[k].gamerscore, lastSeenMs |-> t]),
        flaggedAll |->
          IF k \notin DOMAIN flaggedAll
          THEN MapSet(flaggedAll, k,
                 [gamertag |-> profile.gamertag,
                  lastKnownGS |-> IF profile.gamerscore = Null THEN 0 ELSE profile.gamerscore])
          ELSE MapSet(flaggedAll, k,
                 [gamertag |-> profile.gamertag,
                  lastKnownGS |-> IF profile.gamerscore # Null THEN profile.gamerscore
                                  ELSE flaggedAll[k].lastKnownGS])]


\* trustGamertag without the deletes of lines 601-602
trustGamertagKeepsFlags(gt) ==
  LET original == normalizeGamertag(gt)
      k == gtKey(original)
  IN IF k = <<>>
     THEN UNCHANGED << trusted, pending, flaggedAll, stored >>
     ELSE /\ trusted' = MapSet(trusted, k, [gamertag |-> original])
          /\ UNCHANGED << pending, flaggedAll >>
          /\ stored' = Doc(checked, pending', flaggedAll', trusted', lastDigestMs)

\* trustGamertag emptying state.flaggedAll where line 602 deletes one key
trustGamertagClearsAllTime(gt) ==
  LET original == normalizeGamertag(gt)
      k == gtKey(original)
  IN IF k = <<>>
     THEN UNCHANGED << trusted, pending, flaggedAll, stored >>
     ELSE /\ trusted' = MapSet(trusted, k, [gamertag |-> original])
          /\ pending' = MapDelete(pending, k)
          /\ flaggedAll' = EmptyMap
          /\ stored' = Doc(checked, pending', flaggedAll', trusted', lastDigestMs)

\* trustGamertag without the delete of line 601
trustGamertagKeepsPending(gt) ==
  LET original == normalizeGamertag(gt)
      k == gtKey(original)
  IN IF k = <<>>
     THEN UNCHANGED << trusted, pending, flaggedAll, stored >>
     ELSE /\ trusted' = MapSet(trusted, k, [gamertag |-> original])
          /\ pending' = pending
          /\ flaggedAll' = MapDelete(flaggedAll, k)
          /\ stored' = Doc(checked, pending', flaggedAll', trusted', lastDigestMs)

\* ------------------------------------------------------- trust gate
\* trustGamertag, lines 595-606
trustGamertag(gt) ==
  LET original == normalizeGamertag(gt)
      k == gtKey(original)
  IN IF k = <<>>
     THEN UNCHANGED << trusted, pending, flaggedAll, stored >>
     ELSE /\ trusted' = MapSet(trusted, k, [gamertag |-> original])
          /\ pending' = MapDelete(pending, k)
          /\ flaggedAll' = MapDelete(flaggedAll, k)
          /\ stored' = Doc(checked, pending', flaggedAll', trusted', lastDigestMs)

\* /xtrust add, lines 932-937
Trust(h) ==
  /\ trustGamertag(h)
  /\ UNCHANGED << now, checked, lastDigestMs, queue, queuedKeys, working,
                  globalCooldownUntilMs, wpc, item, wakeAt, digests, runSeq,
                  rlCount, classified, handed >>
  /\ UNCHANGED callVars
  /\ UNCHANGED consecutiveRl
  /\ UNCHANGED lostAtCrash

\* untrustGamertag emptying state.trusted instead of deleting one key
untrustGamertagClearsAll(gt) ==
  LET original == normalizeGamertag(gt)
      k == gtKey(original)
  IN IF k = <<>>
     THEN UNCHANGED << trusted, stored >>
     ELSE /\ trusted' = EmptyMap
          /\ stored' = Doc(checked, pending, flaggedAll, trusted', lastDigestMs)

\* untrustGamertag, lines 608-618
untrustGamertag(gt) ==
  LET original == normalizeGamertag(gt)
      k == gtKey(original)
  IN IF k = <<>>
     THEN UNCHANGED << trusted, stored >>
     ELSE /\ trusted' = MapDelete(trusted, k)
          /\ stored' = Doc(checked, pending, flaggedAll, trusted', lastDigestMs)

\* /xtrust remove, lines 939-944
Untrust(h) ==
  /\ untrustGamertag(h)
  /\ UNCHANGED << now, checked, pending, flaggedAll, lastDigestMs, queue,
                  queuedKeys, working, globalCooldownUntilMs, wpc, item, wakeAt,
                  digests, runSeq, rlCount, classified, handed >>
  /\ UNCHANGED callVars
  /\ UNCHANGED consecutiveRl
  /\ UNCHANGED lostAtCrash

\* the value untrustGamertag returns, lines 609-617
untrustGamertagResult(gt) ==
  LET original == normalizeGamertag(gt)
      k == gtKey(original)
  IN IF k = <<>>
     THEN [ok |-> FALSE, display |-> <<>>]
     ELSE [ok |-> TRUE,
           display |-> IF k \in DOMAIN trusted /\ trusted[k].gamertag # <<>>
                       THEN trusted[k].gamertag
                       ELSE original]

\* /xtrust remove, lines 939-944, with the reply it edits into the
\* interaction: callOut holds what untrustGamertag returned
UntrustReply(h) ==
  /\ untrustGamertag(h)
  /\ callIn' = << h >>
  /\ callOut' = << untrustGamertagResult(h) >>
  /\ UNCHANGED << now, checked, pending, flaggedAll, lastDigestMs, queue,
                  queuedKeys, working, globalCooldownUntilMs, wpc, item, wakeAt,
                  digests, runSeq, rlCount, classified, handed >>
  /\ UNCHANGED consecutiveRl
  /\ UNCHANGED lostAtCrash

\* --------------------------------------------------- sequential worker
Held == IF item = NoItem THEN {} ELSE { item[1].k }

\* line 765: the sleep(wait) of the global cooldown resolves; line 771
\* issues the resolver call
CooldownElapsed ==
  /\ wpc = "cooldown"
  /\ now >= wakeAt
  /\ wpc' = "fetch"
  /\ wakeAt' = 0
  /\ UNCHANGED << now, checked, pending, flaggedAll, trusted, lastDigestMs,
                  queue, queuedKeys, working, globalCooldownUntilMs, item,
                  digests, runSeq, rlCount, classified, handed >>
  /\ UNCHANGED callVars
  /\ UNCHANGED consecutiveRl
  /\ UNCHANGED stored
  /\ UNCHANGED lostAtCrash

\* lines 824: the worker goes to its inter-call delay
ToDelay ==
  /\ wpc' = "delay"
  /\ wakeAt' = now + SCRUB_DELAY_MS
  /\ item' = NoItem

\* the success step with <= for the < of line 781 (a score equal to the
\* threshold is flagged)
FetchOkInclusiveThreshold(gamertag, gs, notify) ==
  /\ wpc = "fetch"
  /\ LET it == item[1]
         flagged == gs # Null /\ gs <= GS_THRESHOLD
         f == IF flagged THEN addFlagged([gamertag |-> gamertag, gamerscore |-> gs])
              ELSE [pending |-> pending, flaggedAll |-> flaggedAll]
     IN /\ checked' = checked \cup {it.k}
        /\ pending' = f.pending
        /\ flaggedAll' = f.flaggedAll
        /\ classified' = [classified EXCEPT ![it.k] = @ + 1]
        /\ IF flagged /\ notify
           THEN /\ wpc' = "notify"
                /\ UNCHANGED << wakeAt, item >>
           ELSE ToDelay
  /\ UNCHANGED << now, trusted, lastDigestMs, queue, queuedKeys, working,
                  globalCooldownUntilMs, digests, runSeq, rlCount, handed >>
  /\ UNCHANGED callVars
  /\ consecutiveRl' = 0
  /\ stored' = Doc(checked', pending', flaggedAll', trusted', lastDigestMs')
  /\ UNCHANGED lostAtCrash

\* lines 771-803: fetchOpenXblMergedProfile resolved with a profile
FetchOk(gamertag, gs, notify) ==
  /\ wpc = "fetch"
  /\ LET it == item[1]
         flagged == gs # Null /\ gs < GS_THRESHOLD
         f == IF flagged THEN addFlagged([gamertag |-> gamertag, gamerscore |-> gs])
              ELSE [pending |-> pending, flaggedAll |-> flaggedAll]
     IN /\ checked' = checked \cup {it.k}
        /\ pending' = f.pending
        /\ flaggedAll' = f.flaggedAll
        /\ classified' = [classified EXCEPT ![it.k] = @ + 1]
        /\ IF flagged /\ notify
           THEN /\ wpc' = "notify"
                /\ UNCHANGED << wakeAt, item >>
           ELSE ToDelay
  /\ UNCHANGED << now, trusted, lastDigestMs, queue, queuedKeys, working,
                  globalCooldownUntilMs, digests, runSeq, rlCount, handed >>
  /\ UNCHANGED callVars
  /\ consecutiveRl' = 0
  /\ stored' = Doc(checked', pending', flaggedAll', trusted', lastDigestMs')
  /\ UNCHANGED lostAtCrash

\* line 801: sendEmbedToChannel returned true or false, or threw (the throw
\* is caught at line 804 and is no RateLimitError, line 819)
NotifyDone ==
  /\ wpc = "notify"
  /\ ToDelay
  /\ UNCHANGED << now, checked, pending, flaggedAll, trusted, lastDigestMs,
                  queue, queuedKeys, working, globalCooldownUntilMs, digests,
                  runSeq, rlCount, classified, handed >>
  /\ UNCHANGED callVars
  /\ UNCHANGED consecutiveRl
  /\ UNCHANGED stored
  /\ UNCHANGED lostAtCrash

\* lines 806-816: the resolver call threw a RateLimitError
FetchRateLimited(retryAfterMs) ==
  /\ wpc = "fetch"
  /\ KeyCount(rlCount) < MaxRateLimits
  /\ LET it == item[1]
         backoff == Min(XBL_BACKOFF_MAX_MS,
                        IF retryAfterMs # Null THEN retryAfterMs ELSE XBL_BACKOFF_BASE_MS)
     IN /\ globalCooldownUntilMs' = now + backoff
        /\ wpc' = "requeue"
        /\ wakeAt' = now + Min(backoff, REQUEUE_SLEEP_CAP_MS)
        /\ rlCount' = [rlCount EXCEPT ![it.k] = @ + 1]
  /\ UNCHANGED << now, checked, pending, flaggedAll, trusted, lastDigestMs,
                  queue, queuedKeys, working, item, digests, runSeq,
                  classified, handed >>
  /\ UNCHANGED callVars
  /\ consecutiveRl' = consecutiveRl + 1
  /\ UNCHANGED stored
  /\ UNCHANGED lostAtCrash


\* the rate-limit handler without the enqueueGamertag of line 817
RequeueDrops ==
  /\ wpc = "requeue"
  /\ now >= wakeAt
  /\ ToDelay
  /\ UNCHANGED << now, checked, pending, flaggedAll, trusted, lastDigestMs,
                  queue, queuedKeys, working, globalCooldownUntilMs, digests,
                  runSeq, rlCount, classified, handed >>
  /\ UNCHANGED callVars
  /\ UNCHANGED consecutiveRl
  /\ UNCHANGED stored
  /\ UNCHANGED lostAtCrash

\* lines 816-817: the sleep before the requeue resolved; the handle is
\* offered again (processQueue returns at once, a loop is active)
Requeue ==
  /\ wpc = "requeue"
  /\ now >= wakeAt
  /\ LET it == item[1]
         e == enqueueGamertag(queue, queuedKeys, it.gt)
     IN /\ queue' = e.queue
        /\ queuedKeys' = e.queuedKeys
  /\ ToDelay
  /\ UNCHANGED << now, checked, pending, flaggedAll, trusted, lastDigestMs,
                  working, globalCooldownUntilMs, digests, runSeq, rlCount,
                  classified, handed >>
  /\ UNCHANGED callVars
  /\ UNCHANGED consecutiveRl
  /\ UNCHANGED stored
  /\ UNCHANGED lostAtCrash


\* the failure of the resolver call escaping the loop, with neither the
\* catch of line 804 nor the finally of line 826
FetchErrorEscapes ==
  /\ wpc = "fetch"
  /\ wpc' = "idle"
  /\ item' = NoItem
  /\ wakeAt' = 0
  /\ UNCHANGED << now, checked, pending, flaggedAll, trusted, lastDigestMs,
                  queue, queuedKeys, working, globalCooldownUntilMs, digests,
                  runSeq, rlCount, classified, handed >>
  /\ UNCHANGED callVars
  /\ consecutiveRl' = 0
  /\ UNCHANGED stored
  /\ UNCHANGED lostAtCrash

\* the failure handler marking the key checked (as the worker of
\* src/index.js does before the call, lines 604-605)
FetchErrorMarksChecked ==
  /\ wpc = "fetch"
  /\ checked' = checked \cup {item[1].k}
  /\ ToDelay
  /\ UNCHANGED << now, pending, flaggedAll, trusted, lastDigestMs, queue,
                  queuedKeys, working, globalCooldownUntilMs, digests, runSeq,
                  rlCount, classified, handed >>
  /\ UNCHANGED callVars
  /\ consecutiveRl' = 0
  /\ stored' = Doc(checked', pending', flaggedAll', trusted', lastDigestMs')
  /\ UNCHANGED lostAtCrash

\* the failure handler offering the handle again, as the rate-limit handler
\* does at line 817
FetchErrorRequeues ==
  /\ wpc = "fetch"
  /\ LET it == item[1]
         e == enqueueGamertag(queue, queuedKeys, it.gt)
     IN /\ queue' = e.queue
        /\ queuedKeys' = e.queuedKeys
  /\ ToDelay
  /\ UNCHANGED << now, checked, pending, flaggedAll, trusted, lastDigestMs,
                  working, globalCooldownUntilMs, digests, runSeq, rlCount,
                  classified, handed >>
  /\ UNCHANGED callVars
  /\ consecutiveRl' = 0
  /\ UNCHANGED stored
  /\ UNCHANGED lostAtCrash

\* lines 818-821: the resolver call threw anything else (not found, network
\* error, abort of the 8 s timeout, malformed response)
FetchError ==
  /\ wpc = "fetch"
  /\ ToDelay
  /\ UNCHANGED << now, checked, pending, flaggedAll, trusted, lastDigestMs,
                  queue, queuedKeys, working, globalCooldownUntilMs, digests,
                  runSeq, rlCount, classified, handed >>
  /\ UNCHANGED callVars
  /\ consecutiveRl' = 0
  /\ UNCHANGED stored
  /\ UNCHANGED lostAtCrash

\* the end of the delay with a loop that never runs the finally of line 827
DelayElapsedKeepsWorking ==
  /\ wpc = "delay"
  /\ now >= wakeAt
  /\ LET d == processQueueLoop(queue, queuedKeys)
     IN /\ queue' = d.queue
        /\ queuedKeys' = d.queuedKeys
        /\ item' = d.item
        /\ wpc' = d.wpc
        /\ wakeAt' = d.wakeAt
        /\ working' = TRUE
  /\ UNCHANGED << now, checked, pending, flaggedAll, trusted, lastDigestMs,
                  globalCooldownUntilMs, digests, runSeq, rlCount, classified,
                  handed >>
  /\ UNCHANGED callVars
  /\ UNCHANGED consecutiveRl
  /\ UNCHANGED stored
  /\ UNCHANGED lostAtCrash

\* line 824 resolved: back to the head of the while loop (line 752), or out
\* of it to the finally (line 827)
DelayElapsed ==
  /\ wpc = "delay"
  /\ now >= wakeAt
  /\ LET d == processQueueLoop(queue, queuedKeys)
     IN /\ queue' = d.queue
        /\ queuedKeys' = d.queuedKeys
        /\ item' = d.item
        /\ wpc' = d.wpc
        /\ wakeAt' = d.wakeAt
        /\ working' = (d.wpc # "idle")
  /\ UNCHANGED << now, checked, pending, flaggedAll, trusted, lastDigestMs,
                  globalCooldownUntilMs, digests, runSeq, rlCount, classified,
                  handed >>
  /\ UNCHANGED callVars
  /\ UNCHANGED consecutiveRl
  /\ UNCHANGED stored
  /\ UNCHANGED lostAtCrash

\* the clock
Tick ==
  /\ now < MaxTime
  /\ now' = now + 1
  /\ UNCHANGED << checked, pending, flaggedAll, trusted, lastDigestMs, queue,
                  queuedKeys, working, globalCooldownUntilMs, wpc, item, wakeAt,
                  digests, runSeq, rlCount, classified, handed >>
  /\ UNCHANGED callVars
  /\ UNCHANGED consecutiveRl
  /\ UNCHANGED stored
  /\ UNCHANGED lostAtCrash

\* ------------------------------------------------------------- digest
\* the loop of chunkLines with the test of line 626 on the line alone,
\* without its separator
RECURSIVE chunkLoopIgnoresSeparator(_, _, _, _)
chunkLoopIgnoresSeparator(lines, maxChars, chunks, current) ==
  IF lines = <<>>
  THEN IF current # <<>> THEN Append(chunks, current) ELSE chunks
  ELSE LET line == Head(lines)
           add == (IF current # <<>> THEN <<"\n">> ELSE <<>>) \o line
       IN IF (Len(current) + Len(line)) > maxChars
          THEN chunkLoopIgnoresSeparator(Tail(lines), maxChars,
                         IF current # <<>> THEN Append(chunks, current) ELSE chunks,
                         line)
          ELSE chunkLoopIgnoresSeparator(Tail(lines), maxChars, chunks, current \o add)

\* chunkLines, lines 621-635: the for loop, with its two locals
RECURSIVE chunkLoop(_, _, _, _)
chunkLoop(lines, maxChars, chunks, current) ==
  IF lines = <<>>
  THEN IF current # <<>> THEN Append(chunks, current) ELSE chunks
  ELSE LET line == Head(lines)
           add == (IF current # <<>> THEN <<"\n">> ELSE <<>>) \o line
       IN IF (Len(current) + Len(add)) > maxChars
          THEN chunkLoop(Tail(lines), maxChars,
                         IF current # <<>> THEN Append(chunks, current) ELSE chunks,
                         line)
          ELSE chunkLoop(Tail(lines), maxChars, chunks, current \o add)

chunkLines(lines, maxChars) == chunkLoop(lines, maxChars, <<>>, <<>>)

\* the lines of a page: page.split("\n")
RECURSIVE SplitLines(_)
SplitLines(page) ==
  IF \A i \in 1..Len(page) : page[i] # "\n" THEN << page >>
  ELSE LET n == CHOOSE i \in 1..Len(page) :
                  page[i] = "\n" /\ \A j \in 1..(i - 1) : page[j] # "\n"
       IN << SubSeq(page, 1, n - 1) >> \o SplitLines(SubSeq(page, n + 1, Len(page)))

\* String.prototype.localeCompare on the characters of the model:
\* space, then letters in alphabetical order, lower case before upper case
CharRank(c) ==
  IF c = " " THEN 0 ELSE IF c = "a" THEN 1 ELSE IF c = "A" THEN 2
  ELSE IF c = "b" THEN 3 ELSE IF c = "B" THEN 4 ELSE 5

RECURSIVE localeCompare(_, _)
localeCompare(s, t) ==
  IF s = <<>> /\ t = <<>> THEN 0
  ELSE IF s = <<>> THEN -1
  ELSE IF t = <<>> THEN 1
  ELSE IF CharRank(Head(s)) < CharRank(Head(t)) THEN -1
  ELSE IF CharRank(Head(s)) > CharRank(Head(t)) THEN 1
  ELSE localeCompare(Tail(s), Tail(t))

\* Array.prototype.sort by gamertag, line 665
RECURSIVE SortByGamertag(_)
SortByGamertag(S) ==
  IF S = {} THEN <<>>
  ELSE LET m == CHOOSE x \in S :
                  \A y \in S : localeCompare(x.gamertag, y.gamertag) <= 0
       IN << m >> \o SortByGamertag(S \ {m})

\* line 659
Cutoff(t) == IF lastDigestMs # 0 THEN lastDigestMs ELSE t - DIGEST_INTERVAL_MS


\* the selection with > for the >= of line 663
SelectItemsStrict(cutoff) ==
  SortByGamertag(
    { [k |-> k, gamertag |-> pending[k].gamertag, gamerscore |-> pending[k].gamerscore,
       lastSeenMs |-> pending[k].lastSeenMs]
      : k \in { x \in DOMAIN pending :
                  pending[x].lastSeenMs > cutoff /\ ~isTrustedKey(x) } })

\* lines 661-665: the entries a run selects
SelectItems(cutoff) ==
  SortByGamertag(
    { [k |-> k, gamertag |-> pending[k].gamertag, gamerscore |-> pending[k].gamerscore,
       lastSeenMs |-> pending[k].lastSeenMs]
      : k \in { x \in DOMAIN pending :
                  pending[x].lastSeenMs >= cutoff /\ ~isTrustedKey(x) } })

\* sendDigestIfDue without the test of line 657
DueAlways(t) == TRUE

\* line 657
Due(t) == ~(lastDigestMs # 0 /\ (t - lastDigestMs) < DIGEST_INTERVAL_MS)

\* the setInterval of line 1036 (or line 1040) fires: sendDigestIfDue runs
\* to its first await (line 667), or returns at line 657
DigestTick ==
  /\ runSeq < MaxRuns
  /\ IF Due(now)
     THEN /\ digests' = digests \cup
               { [id |-> runSeq + 1, pc |-> "chan", now |-> now,
                  items |-> SelectItems(Cutoff(now)), i |-> 0] }
          /\ runSeq' = runSeq + 1
     ELSE UNCHANGED << digests, runSeq >>
  /\ UNCHANGED << now, checked, pending, flaggedAll, trusted, lastDigestMs,
                  queue, queuedKeys, working, globalCooldownUntilMs, wpc, item,
                  wakeAt, rlCount, classified, handed >>
  /\ UNCHANGED callVars
  /\ UNCHANGED consecutiveRl
  /\ UNCHANGED stored
  /\ UNCHANGED lostAtCrash

Lines(r) == [n \in 1..Len(r.items) |-> r.items[n].gamertag]

Chunks(r) == chunkLines(Lines(r), CHUNK_MAX_CHARS)

\* the stamp of lines 699-701 without the clearing of line 700
StampKeepsPending(r) ==
  /\ lastDigestMs' = r.now
  /\ pending' = pending
  /\ digests' = digests \ {r}
  /\ stored' = Doc(checked, pending', flaggedAll, trusted, lastDigestMs')

\* the stamp of lines 699-701 without the saveState of line 701
StampUnsaved(r) ==
  /\ lastDigestMs' = r.now
  /\ pending' = EmptyMap
  /\ digests' = digests \ {r}
  /\ UNCHANGED stored

\* lines 672-674 and 699-701
Stamp(r) ==
  /\ lastDigestMs' = r.now
  /\ pending' = EmptyMap
  /\ digests' = digests \ {r}
  /\ stored' = Doc(checked, pending', flaggedAll, trusted, lastDigestMs')

\* lines 667-681: client.channels.fetch resolved (ok) or failed (null)
DigestChannel(r, ok) ==
  /\ r \in digests
  /\ r.pc = "chan"
  /\ IF ~ok
     THEN /\ digests' = digests \ {r}
          /\ UNCHANGED << lastDigestMs, pending, stored >>
     ELSE IF Len(r.items) = 0
     THEN Stamp(r)
     ELSE /\ digests' = (digests \ {r}) \cup { [r EXCEPT !.pc = "send", !.i = 1] }
          /\ UNCHANGED << lastDigestMs, pending, stored >>
  /\ UNCHANGED << now, checked, flaggedAll, trusted, queue, queuedKeys, working,
                  globalCooldownUntilMs, wpc, item, wakeAt, runSeq, rlCount, classified, handed >>
  /\ UNCHANGED callVars
  /\ UNCHANGED consecutiveRl
  /\ UNCHANGED lostAtCrash

\* the items of run r whose line is on page i
OnPage(r, i) ==
  { r.items[n] : n \in { m \in 1..Len(r.items) :
       \E l \in 1..Len(SplitLines(Chunks(r)[i])) :
          SplitLines(Chunks(r)[i])[l] = r.items[m].gamertag } }

\* handed, once channel.send took page i of run r
Handed(r, i) ==
  [k \in DOMAIN handed \cup { it.k : it \in OnPage(r, i) } |->
     IF \E it \in OnPage(r, i) : it.k = k
     THEN [run |-> r.id,
           lastSeenMs |-> (CHOOSE it \in OnPage(r, i) : it.k = k).lastSeenMs]
     ELSE handed[k]]

\* lines 681-701: sendEmbedToChannel (lines 637-650) for page i settled:
\* "ack" channel.send resolved, "refused" it returned false before sending
\* (no channel, no permission), "throw" channel.send rejected
DigestPage(r, outcome) ==
  /\ r \in digests
  /\ r.pc = "send"
  /\ handed' = IF outcome = "ack" THEN Handed(r, r.i) ELSE handed
  /\ IF outcome = "throw"
     THEN /\ digests' = digests \ {r}
          /\ UNCHANGED << lastDigestMs, pending, stored >>
     ELSE IF r.i < Len(Chunks(r))
     THEN /\ digests' = (digests \ {r}) \cup { [r EXCEPT !.i = r.i + 1] }
          /\ UNCHANGED << lastDigestMs, pending, stored >>
     ELSE Stamp(r)
  /\ UNCHANGED << now, checked, flaggedAll, trusted, queue, queuedKeys, working,
                  globalCooldownUntilMs, wpc, item, wakeAt, runSeq, rlCount, classified >>
  /\ UNCHANGED callVars
  /\ UNCHANGED consecutiveRl
  /\ UNCHANGED lostAtCrash

\* ----------------------------------------------------- specifications
\* the worker lane: feed reader, trust commands, worker and resolver
NextWorker ==
  \/ \E h \in RawHandles : Offer(h)
  \/ \E h \in RawHandles : Trust(h)
  \/ \E h \in RawHandles : Untrust(h)
  \/ CooldownElapsed
  \/ \E g \in Gamertags, gs \in Gamerscores, n \in BOOLEAN : FetchOk(g, gs, n)
  \/ NotifyDone
  \/ \E ra \in RetryAfters : FetchRateLimited(ra)
  \/ Requeue
  \/ FetchError
  \/ DelayElapsed
  \/ Tick

SpecWorker == Init /\ [][NextWorker]_vars

\* handles offered and trusted in the digest lane
DigestHandles == { <<"A">> }
TrustHandles == { <<" ", "a", " ">> }

\* the digest lane: the digest ticker and its sink, with a worker whose
\* resolver does not rate-limit and the trust commands
NextDigest ==
  \/ \E h \in DigestHandles : Offer(h)
  \/ \E h \in TrustHandles : Trust(h)
  \/ \E h \in TrustHandles : Untrust(h)
  \/ \E g \in Gamertags, gs \in {2499, 2500} : FetchOk(g, gs, FALSE)
  \/ FetchError
  \/ DelayElapsed
  \/ Tick
  \/ DigestTick
  \/ \E r \in digests, ok \in BOOLEAN : DigestChannel(r, ok)
  \/ \E r \in digests, o \in {"ack", "refused", "throw"} : DigestPage(r, o)

SpecDigest == Init /\ [][NextDigest]_vars

\* ------------------------------------------------ calls of chunkLines
\* non-empty lines without a newline, of lengths 1, 2 and 3
ChunkLineSet == { <<"a">>, <<"b", "b">>, <<"c", "c", "c">> }

\* lists of at most MaxLines lines
ChunkInputs == UNION { [1..n -> ChunkLineSet] : n \in 0..MaxLines }

InitChunk ==
  /\ now = 1
  /\ checked = {}
  /\ pending = EmptyMap
  /\ flaggedAll = EmptyMap
  /\ trusted = EmptyMap
  /\ lastDigestMs = 0
  /\ queue = <<>>
  /\ queuedKeys = {}
  /\ working = FALSE
  /\ globalCooldownUntilMs = 0
  /\ wpc = "idle"
  /\ item = NoItem
  /\ wakeAt = 0
  /\ digests = {}
  /\ runSeq = 0
  /\ rlCount = [k \in Keys |-> 0]
  /\ classified = [k \in Keys |-> 0]
  /\ handed = EmptyMap
  /\ consecutiveRl = 0
  /\ lostAtCrash = <<>>
  /\ stored = Doc({}, EmptyMap, EmptyMap, EmptyMap, 0)
  /\ callIn \in [lines : ChunkInputs, maxChars : 1..MaxBudget]
  /\ callOut = <<>>

\* chunkLines(lines, maxChars) returns
ChunkCall ==
  /\ callOut = <<>>
  /\ callOut' = << chunkLines(callIn.lines, callIn.maxChars) >>
  /\ UNCHANGED << now, checked, pending, flaggedAll, trusted, lastDigestMs,
                  queue, queuedKeys, working, globalCooldownUntilMs, wpc, item,
                  wakeAt, digests, runSeq, rlCount, classified, handed, callIn >>
  /\ UNCHANGED consecutiveRl
  /\ UNCHANGED stored
  /\ UNCHANGED lostAtCrash

NextChunk == ChunkCall

SpecChunk == InitChunk /\ [][NextChunk]_vars

\* ------------------------------------- the worker of src/index.js
\* enqueueGamertag of src/index.js, lines 585-593: no trust gate, no index
\* of queued keys
ixEnqueueGamertag(q, gt) ==
  LET clean == normalizeGamertag(gt)
      k == gtKey(clean)
  IN IF k = <<>> THEN [queue |-> q, admitted |-> FALSE]
     ELSE IF k \in checked THEN [queue |-> q, admitted |-> FALSE]
     ELSE [queue |-> Append(q, [gt |-> clean, k |-> k]), admitted |-> TRUE]

\* processQueue of src/index.js, lines 600-612: the while loop from its
\* head to the resolver call; the key is marked checked before the call
RECURSIVE ixProcessQueueLoop(_, _)
ixProcessQueueLoop(q, ch) ==
  IF Len(q) = 0
  THEN [queue |-> q, checked |-> ch, item |-> NoItem, wpc |-> "idle"]
  ELSE LET it == Head(q)
       IN IF it.k \in ch
          THEN ixProcessQueueLoop(Tail(q), ch)
          ELSE [queue |-> Tail(q), checked |-> ch \cup {it.k}, item |-> <<it>>,
                wpc |-> "fetch"]

\* the variables src/index.js does not have, or that its worker leaves alone
ixFrame ==
  UNCHANGED << flaggedAll, trusted, lastDigestMs, queuedKeys,
               globalCooldownUntilMs, digests, runSeq, rlCount, classified,
               handed, consecutiveRl, callIn, callOut >>

\* pollOnlineList of src/index.js offers a raw handle
IxOffer(h) ==
  /\ Len(queue) < MaxQueue
  /\ LET e == ixEnqueueGamertag(queue, h)
     IN IF e.admitted /\ ~working
        THEN LET d == ixProcessQueueLoop(e.queue, checked)
             IN /\ queue' = d.queue
                /\ checked' = d.checked
                /\ item' = d.item
                /\ wpc' = d.wpc
                /\ working' = (d.wpc # "idle")
        ELSE /\ queue' = e.queue
             /\ UNCHANGED << checked, item, wpc, working >>
  /\ UNCHANGED << now, pending, wakeAt >>
  /\ ixFrame
  /\ stored' = IF checked' # checked
               THEN Doc(checked', pending, flaggedAll, trusted, lastDigestMs)
               ELSE stored
  /\ UNCHANGED lostAtCrash

\* addPendingFlag of src/index.js, lines 469-492
addPendingFlag(profile) ==
  LET k == gtKey(profile.gamertag)
      t == now
  IN IF k = <<>> THEN pending
     ELSE IF k \notin DOMAIN pending
     THEN MapSet(pending, k,
            [gamertag |-> profile.gamertag,
             gamerscore |-> IF profile.gamerscore = Null THEN 0 ELSE profile.gamerscore,
             lastSeenMs |-> t])
     ELSE MapSet(pending, k,
            [gamertag |-> profile.gamertag,
             gamerscore |-> IF profile.gamerscore # Null THEN profile.gamerscore
                            ELSE pending[k].gamerscore,
             lastSeenMs |-> t])

\* src/index.js, lines 613-640: the resolver call returned a profile
IxFetchOk(gamertag, gs, notify) ==
  /\ wpc = "fetch"
  /\ LET flagged == gs # Null /\ gs < GS_THRESHOLD
     IN /\ pending' = IF flagged
                      THEN addPendingFlag([gamertag |-> gamertag, gamerscore |-> gs])
                      ELSE pending
        /\ IF flagged /\ notify
           THEN /\ wpc' = "notify"
                /\ UNCHANGED << wakeAt, item >>
           ELSE ToDelay
  /\ UNCHANGED << now, checked, queue, working >>
  /\ ixFrame
  /\ stored' = Doc(checked', pending', flaggedAll', trusted', lastDigestMs')
  /\ UNCHANGED lostAtCrash

\* src/index.js, line 638: sendEmbedToChannel settled
IxNotifyDone ==
  /\ wpc = "notify"
  /\ ToDelay
  /\ UNCHANGED << now, checked, pending, queue, working >>
  /\ ixFrame
  /\ UNCHANGED stored
  /\ UNCHANGED lostAtCrash

\* src/index.js, lines 641-643: the resolver call (or the send) threw
IxFetchError ==
  /\ wpc = "fetch"
  /\ ToDelay
  /\ UNCHANGED << now, checked, pending, queue, working >>
  /\ ixFrame
  /\ UNCHANGED stored
  /\ UNCHANGED lostAtCrash

\* src/index.js, line 645 resolved: back to the head of the loop, or out
\* of it to the finally (line 648)
IxDelayElapsed ==
  /\ wpc = "delay"
  /\ now >= wakeAt
  /\ LET d == ixProcessQueueLoop(queue, checked)
     IN /\ queue' = d.queue
        /\ checked' = d.checked
        /\ item' = d.item
        /\ wpc' = d.wpc
        /\ working' = (d.wpc # "idle")
  /\ wakeAt' = 0
  /\ UNCHANGED << now, pending >>
  /\ ixFrame
  /\ stored' = IF checked' # checked
               THEN Doc(checked', pending, flaggedAll, trusted, lastDigestMs)
               ELSE stored
  /\ UNCHANGED lostAtCrash

NextIndex ==
  \/ \E h \in RawHandles : IxOffer(h)
  \/ \E g \in Gamertags, gs \in Gamerscores, n \in BOOLEAN : IxFetchOk(g, gs, n)
  \/ IxNotifyDone
  \/ IxFetchError
  \/ IxDelayElapsed
  \/ Tick

SpecIndex == Init /\ [][NextIndex]_vars

\* ---------------------------------------------------- crash and restart
\* loadState reading no checked list (as line 100 does for a document
\* whose checked is not an array)
loadStateNoChecked(doc) ==
  Doc({}, doc.pending, doc.flaggedAll, doc.trusted, doc.lastDigestMs)

\* loadState, lines 95-156, of a document saveState wrote: the entries with
\* a key, a missing lastSeenMs replaced by the clock (lines 107, 109), and
\* the trusted entries under their trimmed lower-case key with their
\* normalized gamertag, those with an empty one left out (lines 140-150)
loadState(doc) ==
  LET pe == [k \in { x \in DOMAIN doc.pending : x # <<>> } |->
               [gamertag |-> doc.pending[k].gamertag,
                gamerscore |-> doc.pending[k].gamerscore,
                lastSeenMs |-> IF doc.pending[k].lastSeenMs = 0 THEN now
                               ELSE doc.pending[k].lastSeenMs]]
      fa == [k \in { x \in DOMAIN doc.flaggedAll : x # <<>> } |->
               [gamertag |-> doc.flaggedAll[k].gamertag,
                lastKnownGS |-> doc.flaggedAll[k].lastKnownGS]]
      kept == { x \in DOMAIN doc.trusted :
                  /\ ToLowerCase(Trim(x)) # <<>>
                  /\ normalizeGamertag(doc.trusted[x].gamertag) # <<>> }
      tr == [kk \in { ToLowerCase(Trim(x)) : x \in kept } |->
               [gamertag |-> normalizeGamertag(
                  doc.trusted[CHOOSE x \in kept : ToLowerCase(Trim(x)) = kk].gamertag)]]
  IN Doc(doc.checked, pe, fa, tr, doc.lastDigestMs)

\* the process dies at a suspension point and starts again: line 180 loads
\* the document; the queue, its index, the worker loop, the cooldown
\* deadline and the suspended digest runs are gone (lines 724-729)
Restart ==
  /\ Len(lostAtCrash) < MaxRestarts
  /\ LET m == loadState(stored)
     IN /\ checked' = m.checked
        /\ pending' = m.pending
        /\ flaggedAll' = m.flaggedAll
        /\ trusted' = m.trusted
        /\ lastDigestMs' = m.lastDigestMs
  /\ queue' = <<>>
  /\ queuedKeys' = {}
  /\ working' = FALSE
  /\ globalCooldownUntilMs' = 0
  /\ wpc' = "idle"
  /\ item' = NoItem
  /\ wakeAt' = 0
  /\ digests' = {}
  /\ consecutiveRl' = 0
  /\ lostAtCrash' = Append(lostAtCrash,
                          { k \in QueueKeys(queue) \cup Held : k \notin checked })
  /\ UNCHANGED << now, runSeq, rlCount, classified, handed, stored, callIn, callOut >>

\* the crash lane: feed reader, trust command, worker and a resolver that
\* rate-limits without a retry-after, with crashes
NextRestart ==
  \/ \E h \in RawHandles : Offer(h)
  \/ \E h \in TrustHandles : Trust(h)
  \/ \E g \in Gamertags, gs \in {2499, 2500} : FetchOk(g, gs, FALSE)
  \/ FetchRateLimited(Null)
  \/ Requeue
  \/ FetchError
  \/ DelayElapsed
  \/ Tick
  \/ Restart

SpecRestart == Init /\ [][NextRestart]_vars

\* the trust lane: the trust commands with their replies, beside a worker
\* whose resolver does not rate-limit
NextTrust ==
  \/ \E h \in RawHandles : Offer(h)
  \/ \E h \in RawHandles : Trust(h)
  \/ \E h \in RawHandles : UntrustReply(h)
  \/ \E g \in Gamertags, gs \in {2499, 2500} : FetchOk(g, gs, FALSE)
  \/ FetchError
  \/ DelayElapsed
  \/ Tick

SpecTrust == Init /\ [][NextTrust]_vars

\* --------------------------------------------------- interactive check
\* the variables an interactive check must leave alone
sharedVars == << now, checked, pending, flaggedAll, trusted, lastDigestMs,
                 queue, queuedKeys, working, globalCooldownUntilMs, wpc, item,
                 wakeAt, digests, runSeq, rlCount, classified, handed,
                 consecutiveRl, stored, lostAtCrash >>

\* an /xcheck whose resolver call waits for the global cooldown, as the
\* worker's does at lines 761-766
XCheckCallAfterCooldown(h) ==
  /\ callIn = <<>> \/ callOut # <<>>
  /\ globalCooldownUntilMs <= now
  /\ callIn' = << normalizeGamertag(h) >>
  /\ callOut' = <<>>
  /\ UNCHANGED sharedVars

\* /xcheck and /xinfo, lines 950-952: the handler from its entry to the
\* await of its resolver call (one interactive check at a time)
XCheckCall(h) ==
  /\ callIn = <<>> \/ callOut # <<>>
  /\ callIn' = << normalizeGamertag(h) >>
  /\ callOut' = <<>>
  /\ UNCHANGED sharedVars

\* lines 952-968 and 970-1011: the resolver call resolved and the handler
\* replies with the profile and its result
XCheckReply(gamertag, gs) ==
  /\ callIn # <<>>
  /\ callOut = <<>>
  /\ callOut' = << [ok |-> TRUE, gamertag |-> gamertag, gamerscore |-> gs,
                    flaggedByGS |-> IF gs # Null THEN gs < GS_THRESHOLD ELSE FALSE] >>
  /\ UNCHANGED callIn
  /\ UNCHANGED sharedVars

\* lines 1012-1021: the resolver call threw (rate limit included) and the
\* handler replies that something went wrong
XCheckError ==
  /\ callIn # <<>>
  /\ callOut = <<>>
  /\ callOut' = << [ok |-> FALSE] >>
  /\ UNCHANGED callIn
  /\ UNCHANGED sharedVars

\* the interactive lane: the interactive check beside a worker whose
\* resolver rate-limits
CheckHandles == { <<"B">> }

NextCheck ==
  \/ \E h \in DigestHandles : Offer(h)
  \/ \E h \in CheckHandles : XCheckCall(h)
  \/ \E g \in Gamertags, gs \in Gamerscores : XCheckReply(g, gs)
  \/ XCheckError
  \/ CooldownElapsed
  \/ \E g \in Gamertags, gs \in {2499, 2500} : FetchOk(g, gs, FALSE)
  \/ \E ra \in RetryAfters : FetchRateLimited(ra)
  \/ Requeue
  \/ DelayElapsed
  \/ Tick

SpecCheck == Init /\ [][NextCheck]_vars

\* ------------------------------------------------------- termination
\* the clock going on to a timer the worker loop sleeps on (sleep, lines
\* 765, 816 and 824), also after the feed has ended
TimerTick ==
  /\ now >= MaxTime
  /\ wpc \in { "cooldown", "requeue", "delay" }
  /\ wakeAt > now
  /\ now' = now + 1
  /\ UNCHANGED << checked, pending, flaggedAll, trusted, lastDigestMs, queue,
                  queuedKeys, working, globalCooldownUntilMs, wpc, item, wakeAt,
                  digests, runSeq, rlCount, classified, handed >>
  /\ UNCHANGED callVars
  /\ UNCHANGED consecutiveRl
  /\ UNCHANGED stored
  /\ UNCHANGED lostAtCrash

LiveHandles == { <<"A">> }

\* pollOnlineList, lines 705-721, of a feed that ends at MaxTime
FeedOffer(h) ==
  /\ now < MaxTime
  /\ Offer(h)

\* the resolver call of line 771 returns: a profile, a rate-limit signal
\* or another failure
ResolverReturns ==
  \/ \E g \in Gamertags : FetchOk(g, 2499, FALSE)
  \/ \E ra \in RetryAfters : FetchRateLimited(ra)
  \/ FetchError

\* an await of the worker loop resolves: the resolver call returns or a
\* sleep ends
WorkerStep ==
  \/ ResolverReturns
  \/ CooldownElapsed
  \/ Requeue
  \/ DelayElapsed

\* the clock goes on
Clock ==
  \/ Tick
  \/ TimerTick

\* the termination lane: a feed that offers handles until MaxTime, the
\* trust command, and the worker with a resolver that rate-limits at most
\* MaxRateLimits times
NextLive ==
  \/ \E h \in LiveHandles : FeedOffer(h)
  \/ \E h \in TrustHandles : Trust(h)
  \/ WorkerStep
  \/ Clock

\* every await of the worker loop resolves (the resolver call returns, the
\* timers fire) and the clock goes on
SpecLive ==
  /\ Init
  /\ [][NextLive]_vars
  /\ WF_vars(WorkerStep)
  /\ WF_vars(Clock)

\* -------------------------------------------------------------- claims
\* the worker dequeued an item of key k and has not finished its attempt:
\* it waits on the cooldown or on the resolver
InFlight(k) == wpc \in {"cooldown", "fetch"} /\ item # NoItem /\ item[1].k = k

CountInQueue(q, k) == Cardinality({ i \in 1..Len(q) : q[i].k = k })

Outstanding(k) == CountInQueue(queue, k) + (IF InFlight(k) THEN 1 ELSE 0)

\* C1: an offer of a handle whose key has an attempt outstanding (queued, or
\* dequeued and not yet completed) appends nothing to the queue, also when
\* the first offer found the worker idle and started it at once.
C1_SecondOfferAppendsNothing ==
  [][ \A h \in RawHandles :
        (Outstanding(gtKey(h)) >= 1 /\ Offer(h)) => queue' = queue ]_vars

\* C2: CheckedSet never loses a key, and an offer of any raw handle whose key
\* is in CheckedSet leaves the queue and its index unchanged.
C2_CheckedOfferRejected ==
  [][ /\ checked \subseteq checked'
      /\ \A h \in RawHandles :
           (gtKey(h) \in checked /\ Offer(h)) =>
              (queue' = queue /\ queuedKeys' = queuedKeys) ]_vars

\* C2 witness: a handle whose key is checked and not trusted is offered
\* while the worker is busy (a rejected offer leaves this state as it is)
C2_Witness ==
  \E h \in RawHandles :
    /\ gtKey(h) \in checked
    /\ ~isTrustedKey(gtKey(h))
    /\ working
    /\ Len(queue) > 0

\* C3: CheckedSet changes only in the worker step that takes the resolver's
\* success, by the key of the worker's item; the steps that take a
\* rate-limit signal or another failure, and the requeue, leave it unchanged.
C3_CheckedOnlyOnSuccess ==
  [][ /\ (checked' # checked) =>
            /\ \E g \in Gamertags, gs \in Gamerscores, n \in BOOLEAN : FetchOk(g, gs, n)
            /\ checked' = checked \cup {item[1].k}
      /\ (FetchError \/ Requeue \/ NotifyDone
            \/ \E ra \in RetryAfters : FetchRateLimited(ra)) => checked' = checked ]_vars

\* C3 witness: one key's attempt ended rate-limited and the key is not
\* checked, while another key is
C3_Witness ==
  \E k \in Keys : rlCount[k] > 0 /\ k \notin checked /\ checked # {}

\* C4: per key, the items in the queue plus the item the worker is resolving
\* or waiting on cooldown for are at most one.
C4_AtMostOneOutstanding == \A k \in Keys : Outstanding(k) <= 1

\* C5: while a resolver call of the worker is in flight its key is not in
\* CheckedSet, and no key is resolved successfully more than once.
C5_NoCallForCheckedKey ==
  /\ wpc = "fetch" => item[1].k \notin checked
  /\ \A k \in Keys : classified[k] <= 1

\* C5 witness: an item of a key that is already checked waits in the queue
C5_Witness == \E k \in checked : k \in QueueKeys(queue)

\* C6: the requeue after a rate-limited attempt puts the key in the queue
\* again unless it was trusted meanwhile, and a key is in CheckedSet exactly
\* if its score was classified, once.
C6_RateLimitedNeverDropped ==
  [][ /\ (Requeue /\ ~isTrustedKey(item[1].k)) => item[1].k \in QueueKeys(queue')
      /\ \A k \in Keys : classified'[k] = (IF k \in checked' THEN 1 ELSE 0) ]_vars

\* C6 witness: a key was rate-limited three times, then resolved and
\* classified once
C6_Witness ==
  \E k \in Keys : rlCount[k] = 3 /\ k \in checked /\ classified[k] = 1

\* C7: no key is in Trusted and also in Pending or in AllTime.
C7_TrustedNotFlagged ==
  \A k \in DOMAIN trusted : k \notin DOMAIN pending /\ k \notin DOMAIN flaggedAll

\* C7 witness: a key whose line a digest handed to the sink (so it had a
\* PendingEntry and an AllTimeEntry) is trusted
C7_Witness == \E k \in DOMAIN handed : isTrustedKey(k)

\* the keys whose line went to the sink in this step
HandedNow == { k \in DOMAIN handed' : k \notin DOMAIN handed \/ handed'[k] # handed[k] }

\* C8: no page handed to the notification sink holds the line of a key that
\* is trusted at that moment.
C8_NoTrustedLineHanded ==
  [][ \A k \in HandedNow : ~isTrustedKey(k) ]_vars

ItemKeys(r) == { r.items[n].k : n \in 1..Len(r.items) }

\* the lines of a sequence of pages, in order
RECURSIVE PageLines(_)
PageLines(pages) ==
  IF pages = <<>> THEN <<>>
  ELSE SplitLines(Head(pages)) \o PageLines(Tail(pages))

\* C9: the run a due digest tick starts selects exactly the Pending entries
\* that are not trusted and have lastSeenMs >= cutoff, where cutoff is
\* lastDigestMs if that is nonzero and now - digestInterval otherwise; and
\* the lines on the pages of a run are the gamertags of its selection, in
\* the order of the selection.
C9_DigestWindow ==
  [][ /\ \A r \in digests' \ digests :
           r.pc = "chan" =>
             ItemKeys(r) =
               { k \in DOMAIN pending :
                   /\ ~isTrustedKey(k)
                   /\ pending[k].lastSeenMs >=
                        (IF lastDigestMs # 0 THEN lastDigestMs
                         ELSE now - DIGEST_INTERVAL_MS) }
      /\ \A r \in digests' :
           r.pc = "send" => PageLines(Chunks(r)) = Lines(r) ]_vars

\* C9 witness: a run that started with lastDigestMs = 0 is suspended, and
\* an untrusted entry older than its cutoff is in Pending and not selected
C9_Witness ==
  \E r \in digests : \E k \in DOMAIN pending :
    /\ lastDigestMs = 0
    /\ ~isTrustedKey(k)
    /\ pending[k].lastSeenMs < r.now - DIGEST_INTERVAL_MS
    /\ k \notin ItemKeys(r)

\* C10: the line of one PendingEntry (a key with its lastSeenMs) is handed
\* to the sink by at most one digest run.
C10_EntryHandedByOneRun ==
  [][ \A k \in DOMAIN handed \cap DOMAIN handed' :
        handed'[k].lastSeenMs = handed[k].lastSeenMs =>
          handed'[k].run = handed[k].run ]_vars

\* C11: when the sink call for the last page of a run returns (accepted or
\* refused), Pending is empty and lastDigestMs is the time of that run, so
\* that no tick less than digestInterval after that time is due.
C11_FinishedRunClearsAndStamps ==
  [][ \A r \in digests :
        (/\ r.pc = "send"
         /\ r.i = Len(Chunks(r))
         /\ (DigestPage(r, "ack") \/ DigestPage(r, "refused")))
        => /\ pending' = EmptyMap
           /\ lastDigestMs' = r.now
           /\ \A t \in r.now..(r.now + DIGEST_INTERVAL_MS - 1) : ~Due(t)' ]_vars

\* C11 witness: a run whose page the sink took has stamped and cleared while
\* the worker had flagged a key, and the digest is not due now
C11_Witness ==
  /\ lastDigestMs # 0
  /\ handed # EmptyMap
  /\ \E k \in DOMAIN handed : handed[k].lastSeenMs <= lastDigestMs /\ k \in DOMAIN flaggedAll
  /\ pending = EmptyMap
  /\ digests = {}
  /\ ~Due(now)

\* the length of the lines joined by newlines
RECURSIVE JoinedLen(_)
JoinedLen(ls) ==
  IF ls = <<>> THEN 0
  ELSE IF Len(ls) = 1 THEN Len(ls[1])
  ELSE Len(Head(ls)) + 1 + JoinedLen(Tail(ls))

\* the lines of all pages, in order, are the input list (so no line is
\* split across pages), and a page whose lines each fit has length <= max
ChunkPagesSound(ls, max, pages) ==
  /\ PageLines(pages) = ls
  /\ \A i \in 1..Len(pages) :
       (\A l \in 1..Len(SplitLines(pages[i])) : Len(SplitLines(pages[i])[l]) <= max)
          => Len(pages[i]) <= max

\* C12: chunkLines splits no line, keeps the lines in order, keeps every
\* page of fitting lines within max, and gives at least two pages for an
\* input of two or more lines whose joined length exceeds max.
C12_ChunkLines ==
  callOut # <<>> =>
    /\ ChunkPagesSound(callIn.lines, callIn.maxChars, callOut[1])
    /\ (Len(callIn.lines) >= 2 /\ JoinedLen(callIn.lines) > callIn.maxChars)
          => Len(callOut[1]) >= 2

\* C12 witness: three lines that each fit, too long together, on two pages
C12_Witness ==
  /\ callOut # <<>>
  /\ Len(callIn.lines) = 3
  /\ \A l \in 1..3 : Len(callIn.lines[l]) <= callIn.maxChars
  /\ JoinedLen(callIn.lines) > callIn.maxChars
  /\ Len(callOut[1]) = 2

\* C12 as stated: every input whose joined length exceeds max gives at
\* least two pages (a single line longer than max gives one).
C12_AsStated ==
  callOut # <<>> =>
    /\ ChunkPagesSound(callIn.lines, callIn.maxChars, callOut[1])
    /\ JoinedLen(callIn.lines) > callIn.maxChars => Len(callOut[1]) >= 2

\* C13: a successful resolution with display handle d, not trusted, and
\* score s leaves, if s < threshold, an entry with gamertag d and score s
\* under the key of d in Pending and in AllTime; if s >= threshold or s is
\* unknown it leaves Pending and AllTime unchanged.
C13_ClassifierThreshold ==
  [][ \A d \in Gamertags, s \in Gamerscores, n \in BOOLEAN :
        FetchOk(d, s, n) =>
          IF s # Null /\ s < GS_THRESHOLD
          THEN ~isTrustedKey(gtKey(d)) =>
                 /\ gtKey(d) \in DOMAIN pending' \cap DOMAIN flaggedAll'
                 /\ pending'[gtKey(d)].gamertag = d
                 /\ pending'[gtKey(d)].gamerscore = s
                 /\ flaggedAll'[gtKey(d)].gamertag = d
                 /\ flaggedAll'[gtKey(d)].lastKnownGS = s
          ELSE pending' = pending /\ flaggedAll' = flaggedAll ]_vars

\* C13 witness: one key was resolved below the threshold and has its two
\* entries, another was resolved and classified and has none
C13_Witness ==
  \E k \in Keys, j \in Keys :
    /\ k # j
    /\ classified[k] = 1 /\ classified[j] = 1
    /\ k \in DOMAIN pending /\ pending[k].gamerscore = 2499
    /\ flaggedAll[k].lastKnownGS = 2499
    /\ j \notin DOMAIN pending \cup DOMAIN flaggedAll
    /\ trusted = EmptyMap

\* C14: a resolution that reaches the classifier while the key of its
\* offered handle is trusted writes no PendingEntry and no AllTimeEntry.
C14_TrustedAtClassifierWritesNothing ==
  [][ (/\ wpc = "fetch"
       /\ isTrustedKey(item[1].k)
       /\ \E d \in Gamertags, s \in Gamerscores, n \in BOOLEAN : FetchOk(d, s, n))
      => (pending' = pending /\ flaggedAll' = flaggedAll) ]_vars

\* the runs that end in this step
Ended == { r \in digests : \A q \in digests' : q.id # r.id }

\* C15: a due digest run that ends at the sink call for one of its pages,
\* whatever the sink did with the page (refused it for an unreachable
\* channel or a missing permission, or threw in the send), has cleared
\* Pending and stamped lastDigestMs with its time.
C15_SinkFailureStillStamps ==
  [][ \A r \in Ended :
        r.pc = "send" => (pending' = EmptyMap /\ lastDigestMs' = r.now) ]_vars

\* C16: a due digest run with an empty selection, when it ends, has
\* stamped lastDigestMs with its time and cleared Pending, whether the
\* notification channel was reached or not.
C16_EmptySelectionStamps ==
  [][ \A r \in Ended :
        Len(r.items) = 0 => (pending' = EmptyMap /\ lastDigestMs' = r.now) ]_vars

\* C17: the working flag is set exactly while the worker loop is between
\* its start and its end; an offer made while it is set starts no second
\* loop and no resolver call; a resolver call starts only as the next step
\* of the one loop (at its start, after its cooldown or after its delay),
\* with no call in flight and no item held beside the one it is for.
C17_OneWorkerLoop ==
  [][ /\ working <=> (wpc # "idle")
      /\ working' <=> (wpc' # "idle")
      /\ \A h \in RawHandles :
           (working /\ Offer(h)) => UNCHANGED << wpc, item, wakeAt, working >>
      /\ (wpc' = "fetch" /\ wpc # "fetch") =>
           /\ wpc \in {"idle", "cooldown", "delay"}
           /\ wpc = "cooldown" => item' = item
           /\ wpc # "cooldown" => item = NoItem ]_vars

\* C17 witness: the loop is at its resolver call and two more items, offered
\* meanwhile, wait in the queue
C17_Witness == working /\ wpc = "fetch" /\ Len(queue) = 2 /\ checked # {}

\* C18: when the worker starts a resolver call the cooldown deadline has
\* passed, and it does not move while the call is in flight.
C18_NoCallDuringCooldown ==
  [][ /\ (wpc' = "fetch" /\ wpc # "fetch") => now' >= globalCooldownUntilMs'
      /\ (wpc' = "fetch" /\ wpc = "fetch") =>
            globalCooldownUntilMs' = globalCooldownUntilMs ]_vars

\* C18 witness: the item that was rate-limited and requeued is resolved
\* again, its call having started at the cooldown deadline
C18_Witness ==
  /\ wpc = "fetch"
  /\ rlCount[item[1].k] > 0
  /\ globalCooldownUntilMs = now
  /\ globalCooldownUntilMs > SCRUB_DELAY_MS + REQUEUE_SLEEP_CAP_MS

RECURSIVE Pow2(_)
Pow2(n) == IF n = 0 THEN 1 ELSE 2 * Pow2(n - 1)

\* C19: on a rate-limit signal cooldownUntil becomes now + pause, where the
\* pause is the retry-after if one is given and base * 2^(number of
\* rate-limit signals in a row before this one) otherwise, capped at the
\* maximum.
C19_ExponentialBackoff ==
  [][ \A ra \in RetryAfters :
        FetchRateLimited(ra) =>
          globalCooldownUntilMs' =
            now + Min(XBL_BACKOFF_MAX_MS,
                      IF ra # Null THEN ra
                      ELSE XBL_BACKOFF_BASE_MS * Pow2(consecutiveRl)) ]_vars

\* C20: the step in which the worker's resolver call fails without a
\* rate-limit signal leaves the queue, its index, CheckedSet and Trusted as
\* they are (the item, dequeued before the call, is not put back) and
\* releases the item; the gate, which reads only these, admits an offer of
\* any handle of the item's key, unless the key is trusted or an item of
\* it is queued already.
C20_FailureDropsItem ==
  [][ FetchError =>
        /\ queue' = queue
        /\ queuedKeys' = queuedKeys
        /\ checked' = checked
        /\ item' = NoItem
        /\ trusted' = trusted
        /\ item[1].k \notin checked'
        /\ \A h \in RawHandles :
             (/\ gtKey(h) = item[1].k
              /\ ~isTrustedKey(gtKey(h))
              /\ gtKey(h) \notin queuedKeys)
             => enqueueGamertag(queue, queuedKeys, h).admitted ]_vars

\* C20 witness: the worker is in its delay after an attempt that neither
\* succeeded nor was rate-limited, and nothing is queued or checked
C20_Witness ==
  /\ wpc = "delay"
  /\ checked = {}
  /\ KeyCount(rlCount) = 0
  /\ queue = <<>>
  /\ trusted = EmptyMap

\* C21: in the worker of src/index.js, the key of an item whose resolver
\* call failed is not in CheckedSet after the failure, and the gate admits
\* a later offer of a handle of that key.
C21_IndexFailureNotChecked ==
  [][ IxFetchError =>
        /\ item[1].k \notin checked'
        /\ \A h \in RawHandles :
             gtKey(h) = item[1].k => ixEnqueueGamertag(queue, h).admitted ]_vars

\* C22: at every suspension point the document in the state file is the
\* document of the in-memory state: CheckedSet, Pending, AllTime, Trusted
\* and lastDigestMs.
C22_StoredEqualsMemory ==
  stored = Doc(checked, pending, flaggedAll, trusted, lastDigestMs)

\* C22 witness: the worker, a trust command and a digest run have each
\* written the document
C22_Witness ==
  /\ stored.checked # {}
  /\ stored.flaggedAll # EmptyMap
  /\ stored.trusted # EmptyMap
  /\ stored.lastDigestMs # 0
  /\ handed # EmptyMap

C24_UntrustUnknownReportsNotFound ==
  [][ \A h \in RawHandles :
        (UntrustReply(h) /\ ~isTrustedKey(gtKey(h))) =>
          /\ callOut'[1].ok = FALSE
          /\ trusted' = trusted
          /\ stored' = stored
          /\ UNCHANGED << checked, pending, flaggedAll, lastDigestMs, queue,
                          queuedKeys, globalCooldownUntilMs >> ]_vars

\* C25: /xtrust remove of a handle with key K deletes the TrustedEntry of K
\* and nothing else: Pending, AllTime, CheckedSet, lastDigestAt, the queue
\* and the cooldown are unchanged (so entries an earlier trust of K deleted
\* are not restored), and the stored document follows.
C25_UntrustRemovesOnlyTrustedEntry ==
  [][ \A h \in RawHandles :
        UntrustReply(h) =>
          /\ trusted' = [ k \in DOMAIN trusted \ { gtKey(h) } |-> trusted[k] ]
          /\ pending' = pending
          /\ flaggedAll' = flaggedAll
          /\ checked' = checked
          /\ lastDigestMs' = lastDigestMs
          /\ queue' = queue
          /\ queuedKeys' = queuedKeys
          /\ globalCooldownUntilMs' = globalCooldownUntilMs
          /\ stored' = Doc(checked, pending, flaggedAll, trusted', lastDigestMs) ]_vars

\* C25 witness: the last /xtrust remove took the entry of a key that was
\* trusted under another spelling (its reply shows the entry's gamertag);
\* the key is checked and was classified, has no Pending or AllTime entry
\* after the removal, and another key's entries are still there
C25_Witness ==
  /\ callIn # <<>>
  /\ callOut[1].ok
  /\ callOut[1].display # normalizeGamertag(callIn[1])
  /\ gtKey(callIn[1]) \notin DOMAIN trusted
  /\ gtKey(callIn[1]) \in checked
  /\ classified[gtKey(callIn[1])] > 0
  /\ gtKey(callIn[1]) \notin DOMAIN pending \cup DOMAIN flaggedAll
  /\ pending # EmptyMap

\* C26: the empty key, the key of an empty or whitespace-only handle, is in
\* none of the queue, the item the worker holds, CheckedSet, Pending,
\* AllTime and Trusted, and an /xtrust remove of such a handle is refused.
C26_EmptyKeyNowhere ==
  /\ <<>> \notin QueueKeys(queue) \cup queuedKeys \cup Held
  /\ <<>> \notin checked
  /\ <<>> \notin DOMAIN pending \cup DOMAIN flaggedAll \cup DOMAIN trusted
  /\ (callIn # <<>> /\ gtKey(callIn[1]) = <<>>) => ~callOut[1].ok

\* C26 witness: a whitespace-only handle was given to /xtrust remove while
\* the queue, CheckedSet, Pending and Trusted all hold keys
C26_Witness ==
  /\ callIn = << << " ", " " >> >>
  /\ ~callOut[1].ok
  /\ queue # <<>>
  /\ checked # {}
  /\ pending # EmptyMap
  /\ trusted # EmptyMap

\* C27: no failure ends the worker loop with the working flag left set. The
\* flag is set exactly while the loop is suspended at one of its awaits, and
\* the loop is ended only with the queue empty; a step in which the resolver
\* call or the notification fails leaves the loop at the sleep of its
\* handler or at the delay before the next item; when the delay is over the
\* loop takes the next queued item that is neither trusted nor checked; and
\* an admitted offer made while no loop runs starts one on its item.
C27_FailureKeepsWorkerGoing ==
  [][ /\ working' <=> (wpc' # "idle")
      /\ wpc' = "idle" => (queue' = <<>> /\ item' = NoItem)
      /\ (FetchError \/ NotifyDone \/ \E ra \in RetryAfters : FetchRateLimited(ra))
           => wpc' \in { "delay", "requeue" }
      /\ (/\ DelayElapsed
          /\ \E i \in 1..Len(queue) :
               ~isTrustedKey(queue[i].k) /\ queue[i].k \notin checked)
           => (wpc' \in { "fetch", "cooldown" } /\ item' # NoItem)
      /\ \A h \in RawHandles :
           (/\ Offer(h)
            /\ wpc = "idle"
            /\ gtKey(h) # <<>>
            /\ ~isTrustedKey(gtKey(h))
            /\ gtKey(h) \notin checked)
           => (wpc' \in { "fetch", "cooldown" } /\ item'[1].k = gtKey(h)) ]_vars

\* C27 witness: the resolver call of one key was rate-limited, and the
\* worker is resolving an item of another key that never was
C27_Witness ==
  /\ working
  /\ wpc = "fetch"
  /\ rlCount[item[1].k] = 0
  /\ KeyCount(rlCount) > 0

\* C28: the queue never holds two items with the same key, and its length
\* is at most the number of keys offered so far that are not in CheckedSet.
\* Keys, every key a handle of the model has, stands for the keys offered so
\* far: it contains them all, so a queue longer than the keys of Keys that
\* are not checked is longer than the claim's bound.
C28_QueueBoundedByUncheckedKeys ==
  /\ \A i, j \in 1..Len(queue) : queue[i].k = queue[j].k => i = j
  /\ Len(queue) <= Cardinality(Keys \ checked)

\* C29: an interactive check (/xcheck, /xinfo) changes none of CheckedSet,
\* Pending, AllTime, Trusted, lastDigestAt, the queue, cooldownUntil and the
\* stored document, from its start to its reply, and its resolver call can
\* start in every state, an active global cooldown included.
C29_InteractiveCheckSharesNoState ==
  /\ [](\A h \in CheckHandles :
          (callIn = <<>> \/ callOut # <<>>) => ENABLED XCheckCall(h))
  /\ [][ (\/ \E h \in CheckHandles : XCheckCall(h)
          \/ \E g \in Gamertags, gs \in Gamerscores : XCheckReply(g, gs)
          \/ XCheckError)
         => UNCHANGED << checked, pending, flaggedAll, trusted, lastDigestMs,
                         queue, queuedKeys, globalCooldownUntilMs, stored >> ]_vars

\* C29 witness: an interactive check got its reply for a low score while
\* the global cooldown is active and the worker waits for it; the checked
\* handle's key is in no collection
C29_Witness ==
  /\ globalCooldownUntilMs > now
  /\ wpc = "cooldown"
  /\ Len(callOut) = 1
  /\ callOut[1].ok
  /\ callOut[1].gamerscore = 2499
  /\ callOut[1].flaggedByGS
  /\ gtKey(callIn[1]) \notin checked \cup DOMAIN pending \cup DOMAIN flaggedAll

\* C30: a digest tick starts a run only when lastDigestAt = 0 or
\* now - lastDigestAt >= digestInterval; a tick that is not due starts no
\* run, so it sends nothing, and leaves Pending, lastDigestAt and the stored
\* document unchanged. Pages are handed and the stamp is written only by a
\* run such a tick started.
C30_TickActsOnlyWhenDue ==
  [][ /\ (\E r \in digests' : r \notin digests /\ r.pc = "chan")
         => runSeq' # runSeq
      /\ runSeq' # runSeq
         => (lastDigestMs = 0 \/ now - lastDigestMs >= DIGEST_INTERVAL_MS)
      /\ (DigestTick /\ lastDigestMs # 0 /\ now - lastDigestMs < DIGEST_INTERVAL_MS)
         => UNCHANGED << digests, runSeq, pending, lastDigestMs, handed, stored >>
      /\ DigestTick => UNCHANGED << pending, lastDigestMs, handed, stored >>
      /\ (handed' # handed \/ lastDigestMs' # lastDigestMs)
         => \E r \in digests : r.id <= runSeq /\ r \notin digests' ]_vars

\* C30 witness: a digest was stamped less than the interval ago, entries
\* are pending again, no run is suspended, and the ticker can fire
C30_Witness ==
  /\ lastDigestMs # 0
  /\ now - lastDigestMs < DIGEST_INTERVAL_MS
  /\ pending # EmptyMap
  /\ digests = {}
  /\ runSeq < MaxRuns

\* C31: no step of a digest run (the tick, the channel fetch, a page, the
\* stamp) changes AllTime, Trusted or CheckedSet, and a key leaves AllTime
\* only in an /xtrust add of a handle with that key.
C31_DigestKeepsAllTime ==
  [][ /\ (\/ DigestTick
          \/ \E r \in digests, ok \in BOOLEAN : DigestChannel(r, ok)
          \/ \E r \in digests, o \in {"ack", "refused", "throw"} : DigestPage(r, o))
         => UNCHANGED << flaggedAll, trusted, checked >>
      /\ \A k \in DOMAIN flaggedAll :
           k \notin DOMAIN flaggedAll'
             => (k \in DOMAIN trusted' /\ \E h \in TrustHandles : gtKey(h) = k /\ Trust(h)) ]_vars

\* C31 witness: a digest run handed a page and stamped, Pending is cleared,
\* and the AllTimeEntry of the key it reported is still there
C31_Witness ==
  /\ lastDigestMs # 0
  /\ digests = {}
  /\ pending = EmptyMap
  /\ \E k \in DOMAIN handed : k \in DOMAIN flaggedAll
  /\ checked # {}

\* C32: the worker takes the items in the order they were admitted, and
\* when the handle of a rate-limited item is offered again (its key neither
\* trusted nor checked by then) every item the queue holds for that key
\* afterwards is behind every item of another key that was queued before
\* the re-offer, so those are attempted before the key is retried.
C32_RequeuedBehindQueued ==
  [][ /\ (DelayElapsed /\ item' # NoItem)
         => \E n \in 1..Len(queue) :
              /\ item' = << queue[n] >>
              /\ queue' = SubSeq(queue, n + 1, Len(queue))
              /\ \A m \in 1..(n - 1) :
                   isTrustedKey(queue[m].k) \/ queue[m].k \in checked
      /\ (Requeue /\ ~isTrustedKey(item[1].k) /\ item[1].k \notin checked)
         => /\ item[1].k \in QueueKeys(queue')
            /\ \A i \in 1..Len(queue'), j \in 1..Len(queue) :
                 (queue'[i].k = item[1].k /\ queue[j].k # item[1].k) => j < i ]_vars

\* C33: a digest run removes no PendingEntry it did not render: an entry
\* the worker wrote while the run was suspended (its key is not among the
\* run's items and it was seen no earlier than the run began) is still in
\* Pending after the step in which the run clears Pending.
C33_StampKeepsLaterEntries ==
  [][ \A r \in digests :
        (r \notin digests' /\ pending' # pending) =>
          \A k \in DOMAIN pending :
            (k \notin ItemKeys(r) /\ pending[k].lastSeenMs >= r.now)
              => k \in DOMAIN pending' ]_vars

\* C34: lastDigestAt never decreases, whatever the ticks and whichever run
\* stamps, a run that began while an earlier one was suspended included.
C34_LastDigestNeverDecreases ==
  [][ lastDigestMs' >= lastDigestMs ]_vars

\* C35: every key in Pending or in AllTime is in CheckedSet, whatever
\* display gamertag the resolver returned for the offered handle.
C35_FlaggedKeysChecked ==
  (DOMAIN pending \cup DOMAIN flaggedAll) \subseteq checked

\* C36: an item whose key is trusted when the worker loop reaches it is
\* discarded: the loop never takes such an item to the resolver, and the
\* step in which it shifts items adds nothing to CheckedSet; a later offer
\* of a handle whose key is by then neither trusted nor checked nor queued
\* is admitted.
C36_TrustedItemDiscarded ==
  [][ /\ (item' # item /\ item' # NoItem) => ~isTrustedKey(item'[1].k)
      /\ DelayElapsed =>
           /\ checked' = checked
           /\ \E n \in 0..Len(queue) :
                /\ queue' = SubSeq(queue, n + 1, Len(queue))
                /\ \A m \in 1..n :
                     isTrustedKey(queue[m].k) => item' # << queue[m] >>
                /\ \A m \in 1..Len(queue') : queue'[m].k \in queuedKeys'
      /\ \A h \in RawHandles :
           (/\ Offer(h)
            /\ gtKey(h) # <<>>
            /\ ~isTrustedKey(gtKey(h))
            /\ gtKey(h) \notin checked
            /\ gtKey(h) \notin queuedKeys)
           => \/ gtKey(h) \in QueueKeys(queue')
              \/ (item' # NoItem /\ item'[1].k = gtKey(h)) ]_vars

\* C36 witness: an item waits in the queue, its key is trusted and not
\* checked, and the worker is at the delay before it returns to the queue
C36_Witness ==
  /\ wpc = "delay"
  /\ \E n \in 1..Len(queue) :
       isTrustedKey(queue[n].k) /\ queue[n].k \notin checked

\* C37: no item is stranded: whenever the queue is non-empty a worker loop
\* is active, and when working is false the queue and its key index are
\* empty and the worker holds no item.
C37_NoItemStranded ==
  /\ queue # <<>> => working
  /\ ~working => (queue = <<>> /\ queuedKeys = {} /\ item = NoItem)

\* C37 witness: items wait in the queue while the loop sleeps after a
\* rate-limit signal, and the working flag is set
C37_Witness ==
  /\ queue # <<>>
  /\ wpc = "requeue"
  /\ working

\* C38: when every resolver call returns, the rate-limit signals end and
\* the timers fire, every queued key leaves the queue, and from some point
\* on the queue is empty, the worker holds no item and working is false.
C38_WorkerDrainsQueue ==
  <>[](queue = <<>> /\ item = NoItem /\ ~working)

\* C38 witness: the feed has ended; the resolver rate-limited, a key was
\* checked, and the worker is idle with an empty queue
C38_Witness ==
  /\ now >= MaxTime
  /\ KeyCount(rlCount) > 0
  /\ checked # {}
  /\ queue = <<>>
  /\ ~working

\* C39: in every reachable state each key of Pending is a key of AllTime.
C39_PendingWithinAllTime ==
  DOMAIN pending \subseteq DOMAIN flaggedAll

\* C39 witness: a digest has cleared Pending, a key is trusted, and AllTime
\* still holds an entry
C39_Witness ==
  /\ lastDigestMs # 0
  /\ DOMAIN pending = {}
  /\ DOMAIN flaggedAll # {}
  /\ DOMAIN trusted # {}

\* -------------------------------------------------------- retry wrapper
\* openXblFetchWithRetry(url), lines 335-357. callIn holds the call's
\* frame: its argument, attempt, the number of requests it has issued, the
\* await it is suspended at, the retry-after of the last rate-limit signal
\* and the backoff computed from it; callOut
\* holds what the call returned or threw
RetryUrls == { "search", "account" }
RetryData == { "d1", "d2" }

RetryOtherVars == << now, checked, pending, flaggedAll, trusted, lastDigestMs,
                     queue, queuedKeys, working, globalCooldownUntilMs, wpc,
                     item, wakeAt, digests, runSeq, rlCount, classified,
                     handed, consecutiveRl, stored, lostAtCrash >>

\* the call has run to its first await: the first request is out (line 339)
InitRetry ==
  /\ now = 1
  /\ checked = {}
  /\ pending = EmptyMap
  /\ flaggedAll = EmptyMap
  /\ trusted = EmptyMap
  /\ lastDigestMs = 0
  /\ queue = <<>>
  /\ queuedKeys = {}
  /\ working = FALSE
  /\ globalCooldownUntilMs = 0
  /\ wpc = "idle"
  /\ item = NoItem
  /\ wakeAt = 0
  /\ digests = {}
  /\ runSeq = 0
  /\ rlCount = [k \in Keys |-> 0]
  /\ classified = [k \in Keys |-> 0]
  /\ handed = EmptyMap
  /\ consecutiveRl = 0
  /\ lostAtCrash = <<>>
  /\ stored = Doc({}, EmptyMap, EmptyMap, EmptyMap, 0)
  /\ callIn \in [url : RetryUrls, attempt : {0}, requests : {1},
                 pc : {"request"}, retryAfterMs : {Null}, backoff : {0}]
  /\ callOut = <<>>

\* the wrapper giving up one request early (>= for the > of line 343)
RetryRateLimitedGivesUpEarly(retryAfterMs) ==
  /\ callOut = <<>>
  /\ callIn.pc = "request"
  /\ LET attempt == callIn.attempt + 1
         backoff == Min(XBL_BACKOFF_MAX_MS,
                        IF retryAfterMs # Null /\ retryAfterMs # 0
                        THEN retryAfterMs
                        ELSE XBL_BACKOFF_BASE_MS * Pow2(attempt - 1))
     IN IF attempt >= XBL_MAX_RETRIES
        THEN /\ callIn' = [callIn EXCEPT !.attempt = attempt, !.pc = "done"]
             /\ callOut' = << [kind |-> "throw", rateLimited |-> TRUE,
                               retryAfterMs |-> retryAfterMs, data |-> ""] >>
        ELSE /\ callIn' = [callIn EXCEPT !.attempt = attempt, !.pc = "sleep",
                                         !.retryAfterMs = retryAfterMs,
                                         !.backoff = backoff]
             /\ UNCHANGED callOut
  /\ UNCHANGED RetryOtherVars

\* line 339 returned: openXblFetchJson resolved with the response body
RetryResolved(data) ==
  /\ callOut = <<>>
  /\ callIn.pc = "request"
  /\ callIn' = [callIn EXCEPT !.pc = "done"]
  /\ callOut' = << [kind |-> "return", rateLimited |-> FALSE,
                    retryAfterMs |-> Null, data |-> data] >>
  /\ UNCHANGED RetryOtherVars

\* lines 340-341 and 354: openXblFetchJson threw something that is no
\* RateLimitError (line 327, a network error, the abort of the timeout)
RetryFailed ==
  /\ callOut = <<>>
  /\ callIn.pc = "request"
  /\ callIn' = [callIn EXCEPT !.pc = "done"]
  /\ callOut' = << [kind |-> "throw", rateLimited |-> FALSE,
                    retryAfterMs |-> Null, data |-> ""] >>
  /\ UNCHANGED RetryOtherVars

\* lines 341-351: openXblFetchJson threw a RateLimitError (line 325) with
\* the retry-after of the response, or null
RetryRateLimited(retryAfterMs) ==
  /\ callOut = <<>>
  /\ callIn.pc = "request"
  /\ LET attempt == callIn.attempt + 1
         backoff == Min(XBL_BACKOFF_MAX_MS,
                        IF retryAfterMs # Null /\ retryAfterMs # 0
                        THEN retryAfterMs
                        ELSE XBL_BACKOFF_BASE_MS * Pow2(attempt - 1))
     IN IF attempt > XBL_MAX_RETRIES
        THEN /\ callIn' = [callIn EXCEPT !.attempt = attempt, !.pc = "done"]
             /\ callOut' = << [kind |-> "throw", rateLimited |-> TRUE,
                               retryAfterMs |-> retryAfterMs, data |-> ""] >>
        ELSE /\ callIn' = [callIn EXCEPT !.attempt = attempt, !.pc = "sleep",
                                         !.retryAfterMs = retryAfterMs,
                                         !.backoff = backoff]
             /\ UNCHANGED callOut
  /\ UNCHANGED RetryOtherVars

\* lines 351-352 and 339: the sleep resolved and the loop issues the next
\* request
RetrySleepDone ==
  /\ callOut = <<>>
  /\ callIn.pc = "sleep"
  /\ callIn' = [callIn EXCEPT !.pc = "request", !.requests = @ + 1]
  /\ UNCHANGED callOut
  /\ UNCHANGED RetryOtherVars

NextRetry ==
  \/ \E d \in RetryData : RetryResolved(d)
  \/ RetryFailed
  \/ \E ra \in RetryAfters : RetryRateLimited(ra)
  \/ RetrySleepDone

\* every request is answered and every sleep ends
SpecRetry == InitRetry /\ [][NextRetry]_vars /\ WF_vars(NextRetry)

\* C40: openXblFetchWithRetry issues at most XBL_MAX_RETRIES + 1 requests
\* and then ends: every request but the last was rate-limited; it returns
\* or rethrows on the first answer that is no rate-limit signal, and it
\* throws the rate-limit signal only when XBL_MAX_RETRIES + 1 requests were
\* rate-limited.
C40_RetryBounded ==
  /\ [](/\ callIn.requests <= XBL_MAX_RETRIES + 1
        /\ callIn.pc = "request" => callIn.requests = callIn.attempt + 1
        /\ callIn.pc = "sleep" => callIn.requests = callIn.attempt
        /\ callOut # <<>> =>
             IF callOut[1].rateLimited
             THEN /\ callOut[1].kind = "throw"
                  /\ callIn.requests = XBL_MAX_RETRIES + 1
                  /\ callIn.attempt = XBL_MAX_RETRIES + 1
             ELSE callIn.requests = callIn.attempt + 1)
  /\ <>(callOut # <<>>)

\* C40 witness: the call threw the rate-limit signal after its last retry
C40_Witness ==
  /\ callOut # <<>>
  /\ callOut[1].kind = "throw"
  /\ callOut[1].rateLimited
  /\ callIn.requests = XBL_MAX_RETRIES + 1
  /\ callIn.backoff = XBL_BACKOFF_MAX_MS

====
